---- MODULE Spec2Model ----
\* A model of the DP-900 flashcard viewer (src/app.py): the session state that
\* Streamlit keeps between runs of the script, the per-user skip files under
\* DATA_DIR, and one action per user interaction.  An interaction is the widget's
\* callback followed by the run of the script body that Streamlit performs
\* after it, so each action is "callback, then script_run".
EXTENDS Integers, Sequences, FiniteSets, TLC

\* ---------------------------------------------------------------- bounds
\* The question pool is MIN_QUESTION..MAX_QUESTION (1..177 in the source); the
\* model keeps MIN_QUESTION and shrinks MAX_QUESTION.
MIN_QUESTION == 1
MAX_QUESTION == 3

APP_PASSCODE == "az900fun"

VARIABLES
    authenticated,      \* st.session_state.authenticated
    user_name,          \* st.session_state.user_name, a sequence of characters
    current_playlist,   \* st.session_state.current_playlist
    playlist_index,     \* st.session_state.playlist_index, 0-based
    showing_answer,     \* st.session_state.showing_answer
    is_shuffled,        \* st.session_state.is_shuffled
    skipped_questions,  \* st.session_state.skipped_questions
    files               \* the files of DATA_DIR, by path

vars == <<authenticated, user_name, current_playlist, playlist_index,
          showing_answer, is_shuffled, skipped_questions, files>>

\* ------------------------------------------------------- text and numbers
\* Texts are sequences of one-character strings.
DigitChars == <<"0", "1", "2", "3", "4", "5", "6", "7", "8", "9">>
Digits == {DigitChars[i] : i \in 1..10}
Letters == {"a", "b", "x"}
Whitespace == {" "}

DigitValue(c) == (CHOOSE i \in 1..10 : DigitChars[i] = c) - 1

\* str(n) for n >= 0
RECURSIVE IntToStr(_)
IntToStr(n) ==
    IF n < 10 THEN <<DigitChars[n + 1]>>
    ELSE IntToStr(n \div 10) \o <<DigitChars[(n % 10) + 1]>>

\* str.strip(): leading and trailing whitespace removed
RECURSIVE LStrip(_)
LStrip(s) ==
    IF s # <<>> /\ Head(s) \in Whitespace THEN LStrip(Tail(s)) ELSE s

RECURSIVE RStrip(_)
RStrip(s) ==
    IF s # <<>> /\ s[Len(s)] \in Whitespace
    THEN RStrip(SubSeq(s, 1, Len(s) - 1)) ELSE s

Strip(s) == RStrip(LStrip(s))

RECURSIVE DigitsToInt(_)
DigitsToInt(s) ==
    IF s = <<>> THEN 0
    ELSE 10 * DigitsToInt(SubSeq(s, 1, Len(s) - 1)) + DigitValue(s[Len(s)])

\* int(text): the text stripped, an optional sign, then one or more digits;
\* anything else raises ValueError (ok = FALSE).
ParseInt(text) ==
    LET t == Strip(text)
        signed == t # <<>> /\ Head(t) \in {"-", "+"}
        body == IF signed THEN Tail(t) ELSE t
        valid == body # <<>> /\ \A i \in 1..Len(body) : body[i] \in Digits
    IN  IF ~valid THEN [ok |-> FALSE, val |-> 0]
        ELSE [ok |-> TRUE,
              val |-> IF signed /\ Head(t) = "-" THEN 0 - DigitsToInt(body)
                      ELSE DigitsToInt(body)]

\* text.split(','): the pieces between the commas, at least one piece
RECURSIVE Split(_)
Split(text) ==
    IF \A i \in 1..Len(text) : text[i] # "," THEN <<text>>
    ELSE LET k == CHOOSE i \in 1..Len(text) :
                      text[i] = "," /\ \A j \in 1..(i - 1) : text[j] # ","
         IN  <<SubSeq(text, 1, k - 1)>> \o Split(SubSeq(text, k + 1, Len(text)))

\* ------------------------------------------------------- sequences as lists
Range(seq) == {seq[i] : i \in 1..Len(seq)}

\* the lists that hold each element of S once
RECURSIVE Enumerations(_)
Enumerations(S) ==
    IF S = {} THEN {<<>>}
    ELSE UNION {{<<x>> \o l : l \in Enumerations(S \ {x})} : x \in S}

\* the rearrangements of a list
Rearrangements(seq) ==
    {[i \in 1..Len(seq) |-> seq[f[i]]] : f \in Enumerations(1..Len(seq))}

RECURSIVE InsertSorted(_, _)
InsertSorted(x, seq) ==
    IF seq = <<>> THEN <<x>>
    ELSE IF x <= Head(seq) THEN <<x>> \o seq
    ELSE <<Head(seq)>> \o InsertSorted(x, Tail(seq))

\* sorted(list)
RECURSIVE sorted(_)
sorted(seq) ==
    IF seq = <<>> THEN <<>> ELSE InsertSorted(Head(seq), sorted(Tail(seq)))

\* list(set): the elements once each, in an order the set's hashing decides
ListOfSet(S) == Enumerations(S)

\* list(range(MIN_QUESTION, MAX_QUESTION + 1))
all_questions == [i \in 1..(MAX_QUESTION - MIN_QUESTION + 1) |-> MIN_QUESTION + i - 1]

\* ------------------------------------------------------------ persistence
\* get_user_data_file returns None for a name that sanitizes to nothing.
NoPath == <<>>

IsSafeChar(c) == c \in Letters \/ c \in Digits \/ c \in {" ", ".", "_"}

get_user_data_file(username) ==
    LET safe_username == Strip(SelectSeq(username, IsSafeChar))
    IN  IF safe_username = <<>> THEN NoPath
        ELSE <<"user_data/">> \o safe_username \o <<"_skipped.json">>

\* The names a user may type in the sidebar: none, a name whose file is named
\* by what sanitizing leaves of it ("a!"), and a name that sanitizes to nothing.
UserNames == {<<>>, <<"a", "!">>, <<"!", " ">>}

Paths == {get_user_data_file(u) : u \in UserNames} \ {NoPath}

\* What a file of DATA_DIR holds: nothing (no such file), text that is not
\* JSON, or a JSON array.
Absent == [kind |-> "absent", list |-> <<>>]
Corrupt == [kind |-> "corrupt", list |-> <<>>]
Json(seq) == [kind |-> "json", list |-> seq]

\* What a session may find in a file when it starts: nothing, a failed
\* write, a skip set an earlier session saved, or an array edited by hand (a
\* number outside the pool, a repeated number).
InitialContents ==
    {Absent, Corrupt, Json(<<MIN_QUESTION + 1, MIN_QUESTION>>),
     Json(<<MAX_QUESTION + 1, MIN_QUESTION, MIN_QUESTION>>)}

\* The handlers work on a record s of the session state and the files; its
\* field notice collects the messages (toast, info, warning, error) that the
\* run shows, which no later run sees.
Notify(s, message) == [s EXCEPT !.notice = @ \cup {message}]

\* save_skipped_questions that writes a file also for a name that sanitizes to
\* nothing
save_skipped_questions_default_file(s, username, skipped_set) ==
    LET file_path == IF get_user_data_file(username) # NoPath
                     THEN get_user_data_file(username)
                     ELSE CHOOSE p \in DOMAIN s.files : TRUE
        written == {Notify([s EXCEPT !.files[file_path] = Json(l)], "saved") :
                        l \in ListOfSet(skipped_set)}
        failed == {Notify([s EXCEPT !.files[file_path] = c], "save_error") :
                        c \in {s.files[file_path], Corrupt}}
    IN  written \cup failed

\* save_skipped_questions that writes one file for all names
save_skipped_questions_shared_file(s, username, skipped_set) ==
    LET file_path == IF get_user_data_file(username) = NoPath THEN NoPath
                     ELSE get_user_data_file(<<"a">>)
        written == {Notify([s EXCEPT !.files[file_path] = Json(l)], "saved") :
                        l \in ListOfSet(skipped_set)}
        failed == {Notify([s EXCEPT !.files[file_path] = c], "save_error") :
                        c \in {s.files[file_path], Corrupt}}
    IN  IF file_path = NoPath THEN {s} ELSE written \cup failed

\* save_skipped_questions that keeps the numbers the file already holds
save_skipped_questions_merges(s, username, skipped_set) ==
    LET file_path == get_user_data_file(username)
        kept == IF file_path # NoPath THEN Range(s.files[file_path].list) ELSE {}
        written == {Notify([s EXCEPT !.files[file_path] = Json(l)], "saved") :
                        l \in ListOfSet(skipped_set \cup kept)}
        failed == {Notify([s EXCEPT !.files[file_path] = c], "save_error") :
                        c \in {s.files[file_path], Corrupt}}
    IN  IF file_path = NoPath THEN {s} ELSE written \cup failed

\* save_skipped_questions: no file for a name that sanitizes to nothing;
\* otherwise the file is overwritten with list(skipped_set), or the write fails:
\* open() fails and the file is as before, or the dump fails after open()
\* truncated the file, which is then no JSON.
save_skipped_questions(s, username, skipped_set) ==
    LET file_path == get_user_data_file(username)
        written == {Notify([s EXCEPT !.files[file_path] = Json(l)], "saved") :
                        l \in ListOfSet(skipped_set)}
        failed == {Notify([s EXCEPT !.files[file_path] = c], "save_error") :
                        c \in {s.files[file_path], Corrupt}}
    IN  IF file_path = NoPath THEN {s} ELSE written \cup failed

\* load_skipped_questions: the set of the file's array; the empty set when there
\* is no path, no file, or no JSON in it (with a warning).
\* load_skipped_questions that keeps only the numbers of the pool
load_skipped_questions_in_pool(fs, username) ==
    LET file_path == get_user_data_file(username)
    IN  IF file_path # NoPath /\ fs[file_path].kind # "absent"
        THEN IF fs[file_path].kind = "json"
             THEN [set |-> {q \in Range(fs[file_path].list) :
                               MIN_QUESTION <= q /\ q <= MAX_QUESTION},
                   warning |-> {}]
             ELSE [set |-> {}, warning |-> {"corrupted"}]
        ELSE [set |-> {}, warning |-> {}]

load_skipped_questions(fs, username) ==
    LET file_path == get_user_data_file(username)
    IN  IF file_path # NoPath /\ fs[file_path].kind # "absent"
        THEN IF fs[file_path].kind = "json"
             THEN [set |-> Range(fs[file_path].list), warning |-> {}]
             ELSE [set |-> {}, warning |-> {"corrupted"}]
        ELSE [set |-> {}, warning |-> {}]

\* ------------------------------------------------------------ the playlist
\* shuffle_array: random.shuffle leaves any rearrangement
shuffle_array(array) == Rearrangements(array)

\* build_playlist that leaves the card on the side it was showing
build_playlist_keeps_answer(s) ==
    LET available_questions ==
            SelectSeq(all_questions, LAMBDA q : q \notin s.skipped_questions)
        playlists == IF s.is_shuffled THEN shuffle_array(available_questions)
                     ELSE {sorted(available_questions)}
    IN  {LET t == [s EXCEPT !.current_playlist = p, !.playlist_index = 0]
         IN  IF p = <<>> THEN Notify(t, "no_questions_available") ELSE t :
            p \in playlists}

\* build_playlist that shuffles the whole pool, the filter applied only to the
\* ordered playlist
build_playlist_shuffles_pool(s) ==
    LET available_questions ==
            SelectSeq(all_questions, LAMBDA q : q \notin s.skipped_questions)
        playlists == IF s.is_shuffled THEN shuffle_array(all_questions)
                     ELSE {sorted(available_questions)}
    IN  {LET t == [s EXCEPT !.current_playlist = p,
                            !.playlist_index = 0,
                            !.showing_answer = FALSE]
         IN  IF p = <<>> THEN Notify(t, "no_questions_available") ELSE t :
            p \in playlists}

build_playlist(s) ==
    LET available_questions ==
            SelectSeq(all_questions, LAMBDA q : q \notin s.skipped_questions)
        playlists == IF s.is_shuffled THEN shuffle_array(available_questions)
                     ELSE {sorted(available_questions)}
    IN  {LET t == [s EXCEPT !.current_playlist = p,
                            !.playlist_index = 0,
                            !.showing_answer = FALSE]
         IN  IF p = <<>> THEN Notify(t, "no_questions_available") ELSE t :
            p \in playlists}

\* update_flashcard_image: the question number the page shows, 0 for the
\* placeholder of an empty playlist.  Its read of the playlist is at
\* playlist_index (0-based).
update_flashcard_image(s) ==
    IF s.current_playlist = <<>> THEN 0
    ELSE s.current_playlist[s.playlist_index + 1]

\* go_to_playlist_index with the upper bound off by one (index <= len)
go_to_playlist_index_inclusive(s, index) ==
    IF s.current_playlist = <<>> THEN Notify(s, "no_questions_in_playlist")
    ELSE IF 0 <= index /\ index <= Len(s.current_playlist)
    THEN [s EXCEPT !.playlist_index = index, !.showing_answer = FALSE]
    ELSE Notify(s, "end_of_playlist")

\* go_to_playlist_index that keeps the side of the card it was showing
go_to_playlist_index_keeps_answer(s, index) ==
    IF s.current_playlist = <<>> THEN Notify(s, "no_questions_in_playlist")
    ELSE IF 0 <= index /\ index < Len(s.current_playlist)
    THEN [s EXCEPT !.playlist_index = index]
    ELSE Notify(s, "end_of_playlist")

go_to_playlist_index(s, index) ==
    IF s.current_playlist = <<>> THEN Notify(s, "no_questions_in_playlist")
    ELSE IF 0 <= index /\ index < Len(s.current_playlist)
    THEN [s EXCEPT !.playlist_index = index, !.showing_answer = FALSE]
    ELSE Notify(s, "end_of_playlist")

\* list.index(x): the 0-based place of the first x
IndexOf(seq, x) == (CHOOSE i \in 1..Len(seq) :
                        seq[i] = x /\ \A j \in 1..(i - 1) : seq[j] # x) - 1

\* `if st.session_state.user_name: save_skipped_questions(...)`
SaveIfNamed(s) ==
    IF s.user_name # <<>>
    THEN save_skipped_questions(s, s.user_name, s.skipped_questions)
    ELSE {s}

\* go_to_question_by_number past its checks, without the rebuild that puts
\* the un-skipped question back in the playlist
go_to_valid_question_no_rebuild(s, q_num) ==
    LET unskipped ==
            IF q_num \in s.skipped_questions
            THEN {Notify(w, "unskipped") :
                     w \in SaveIfNamed([s EXCEPT !.skipped_questions = @ \ {q_num}])}
            ELSE {s}
    IN  {IF q_num \in Range(u.current_playlist)
         THEN go_to_playlist_index(u, IndexOf(u.current_playlist, q_num))
         ELSE Notify(u, "not_in_playlist") : u \in unskipped}

\* go_to_question_by_number past its checks (lines 166-179): a skipped number
\* is un-skipped, the playlist rebuilt and the skip set saved; then the
\* number is looked up in the playlist.
go_to_valid_question(s, q_num) ==
    LET unskipped ==
            IF q_num \in s.skipped_questions
            THEN UNION {{Notify(w, "unskipped") : w \in SaveIfNamed(u)} :
                     u \in build_playlist(
                              [s EXCEPT !.skipped_questions = @ \ {q_num}])}
            ELSE {s}
    IN  {IF q_num \in Range(u.current_playlist)
         THEN go_to_playlist_index(u, IndexOf(u.current_playlist, q_num))
         ELSE Notify(u, "not_in_playlist") : u \in unskipped}

\* go_to_question_by_number that takes an empty field for the first question
go_to_question_by_number_empty_is_first(s, q_num_str) ==
    LET parsed == IF q_num_str = <<>> THEN [ok |-> TRUE, val |-> MIN_QUESTION]
                  ELSE ParseInt(q_num_str)
    IN  IF ~parsed.ok THEN {Notify(s, "invalid_number")}
        ELSE IF ~(MIN_QUESTION <= parsed.val /\ parsed.val <= MAX_QUESTION)
        THEN {Notify(s, "out_of_range")}
        ELSE go_to_valid_question(s, parsed.val)

go_to_question_by_number(s, q_num_str) ==
    LET parsed == ParseInt(q_num_str)
    IN  IF ~parsed.ok THEN {Notify(s, "invalid_number")}
        ELSE IF ~(MIN_QUESTION <= parsed.val /\ parsed.val <= MAX_QUESTION)
        THEN {Notify(s, "out_of_range")}
        ELSE go_to_valid_question(s, parsed.val)

\* skip_current_question that takes the skip back when the save fails
skip_current_question_rolls_back(s) ==
    IF s.current_playlist = <<>> THEN {Notify(s, "no_question_to_skip")}
    ELSE LET current_q == s.current_playlist[s.playlist_index + 1]
             added == Notify([s EXCEPT !.skipped_questions = @ \cup {current_q}],
                             "skipped")
             saved == UNION {SaveIfNamed(u) : u \in build_playlist(added)}
         IN  {IF "save_error" \in u.notice
              THEN [s EXCEPT !.files = u.files, !.notice = {"save_error"}]
              ELSE u : u \in saved}

\* skip_current_question that skips the head of the playlist, not the
\* question at the cursor
skip_current_question_head(s) ==
    IF s.current_playlist = <<>> THEN {Notify(s, "no_question_to_skip")}
    ELSE LET current_q == s.current_playlist[1]
             added == Notify([s EXCEPT !.skipped_questions = @ \cup {current_q}],
                             "skipped")
         IN  UNION {SaveIfNamed(u) : u \in build_playlist(added)}

skip_current_question(s) ==
    IF s.current_playlist = <<>> THEN {Notify(s, "no_question_to_skip")}
    ELSE LET current_q == s.current_playlist[s.playlist_index + 1]
             added == Notify([s EXCEPT !.skipped_questions = @ \cup {current_q}],
                             "skipped")
             adjusted ==
                {IF u.playlist_index >= Len(u.current_playlist)
                        /\ Len(u.current_playlist) > 0
                 THEN [u EXCEPT !.playlist_index = Len(u.current_playlist) - 1]
                 ELSE IF Len(u.current_playlist) = 0
                 THEN [u EXCEPT !.playlist_index = 0]
                 ELSE u : u \in build_playlist(added)}
         IN  UNION {SaveIfNamed(u) : u \in adjusted}

\* new_skipped of parse_skipped_input: the pieces between commas that are
\* integers of the pool
new_skipped(input_string) ==
    LET pieces == Split(input_string)
    IN  {ParseInt(pieces[i]).val : i \in
            {j \in 1..Len(pieces) :
                /\ ParseInt(pieces[j]).ok
                /\ MIN_QUESTION <= ParseInt(pieces[j]).val
                /\ ParseInt(pieces[j]).val <= MAX_QUESTION}}

\* parse_skipped_input that adds the numbers of the text to the skip set
parse_skipped_input_merges(s, input_string) ==
    UNION {SaveIfNamed(u) :
            u \in build_playlist(
                    [s EXCEPT !.skipped_questions = @ \cup new_skipped(input_string)])}

\* parse_skipped_input without the save
parse_skipped_input_no_save(s, input_string) ==
    build_playlist([s EXCEPT !.skipped_questions = new_skipped(input_string)])

parse_skipped_input(s, input_string) ==
    UNION {SaveIfNamed(u) :
            u \in build_playlist(
                    [s EXCEPT !.skipped_questions = new_skipped(input_string)])}

\* user_name_changed that, on a cleared name, also ends the login
user_name_changed_clears_session(s, new_user_name) ==
    LET named == [s EXCEPT !.user_name = new_user_name]
        loaded == load_skipped_questions(s.files, new_user_name)
    IN  IF new_user_name # <<>>
        THEN {Notify(u, "loaded") :
                u \in build_playlist(
                        [named EXCEPT !.skipped_questions = loaded.set,
                                      !.notice = @ \cup loaded.warning])}
        ELSE {Notify(u, "enter_name") :
                u \in build_playlist([named EXCEPT !.skipped_questions = {},
                                                   !.authenticated = FALSE])}

\* user_name_changed without the rebuild of the playlist
user_name_changed_no_rebuild(s, new_user_name) ==
    LET named == [s EXCEPT !.user_name = new_user_name]
        loaded == load_skipped_questions(s.files, new_user_name)
    IN  IF new_user_name # <<>>
        THEN {Notify([named EXCEPT !.skipped_questions = loaded.set,
                                   !.notice = @ \cup loaded.warning], "loaded")}
        ELSE {Notify([named EXCEPT !.skipped_questions = {}], "enter_name")}

\* The user-name block of the sidebar (lines 266-280), run when the text of
\* the name field differs from the session's user_name.
user_name_changed(s, new_user_name) ==
    LET named == [s EXCEPT !.user_name = new_user_name]
        loaded == load_skipped_questions(s.files, new_user_name)
    IN  IF new_user_name # <<>>
        THEN {Notify(u, "loaded") :
                u \in build_playlist(
                        [named EXCEPT !.skipped_questions = loaded.set,
                                      !.notice = @ \cup loaded.warning])}
        ELSE {Notify(u, "enter_name") :
                u \in build_playlist([named EXCEPT !.skipped_questions = {}])}

\* One run of the script body (lines 240-347) with new_user_name in the name
\* field: stop at the passcode gate, build the playlist when it is empty, run
\* the user-name block when the name changed, then show the card.
script_run(s, new_user_name) ==
    IF ~s.authenticated THEN {s}
    ELSE UNION {IF new_user_name # u.user_name
                THEN user_name_changed(u, new_user_name)
                ELSE {u} :
            u \in (IF s.current_playlist = <<>> THEN build_playlist(s) ELSE {s})}

\* ------------------------------------------------------------- the session
State ==
    [authenticated |-> authenticated, user_name |-> user_name,
     current_playlist |-> current_playlist, playlist_index |-> playlist_index,
     showing_answer |-> showing_answer, is_shuffled |-> is_shuffled,
     skipped_questions |-> skipped_questions, files |-> files,
     notice |-> {}]

Install(s) ==
    /\ authenticated' = s.authenticated
    /\ user_name' = s.user_name
    /\ current_playlist' = s.current_playlist
    /\ playlist_index' = s.playlist_index
    /\ showing_answer' = s.showing_answer
    /\ is_shuffled' = s.is_shuffled
    /\ skipped_questions' = s.skipped_questions
    /\ files' = s.files

\* A callback's outcomes, each followed by the run of the script.
ThenRun(outcomes) == UNION {script_run(u, u.user_name) : u \in outcomes}

\* initialize_session_state
Init ==
    /\ authenticated = FALSE
    /\ user_name = <<>>
    /\ current_playlist = <<>>
    /\ playlist_index = 0
    /\ showing_answer = FALSE
    /\ is_shuffled = FALSE
    /\ skipped_questions = {}
    /\ files \in [Paths -> InitialContents]

\* ------------------------------------------------------------------ inputs
Passcodes == {APP_PASSCODE, "az900", ""}

QuestionInputs ==
    {IntToStr(n) : n \in 0..(MAX_QUESTION + 1)}
        \cup {<<>>, <<"x">>, <<"-", "1">>, <<" ", "2", " ">>, <<"1", "0">>}


RECURSIVE Join(_)
Join(tokens) ==
    IF tokens = <<>> THEN <<>>
    ELSE IF Len(tokens) = 1 THEN tokens[1]
    ELSE tokens[1] \o <<",">> \o Join(Tail(tokens))

\* Texts for the skip-list editor: every subset of the pool as the page itself
\* writes it (",".join(map(str, sorted(...)))), and texts with blanks, a word,
\* an empty piece, a repeated number and a number outside the pool.
SetText(S) == Join([i \in 1..Cardinality(S) |-> IntToStr(sorted(CHOOSE l \in ListOfSet(S) : TRUE)[i])])

SkipTexts ==
    {SetText(S) : S \in SUBSET (MIN_QUESTION..MAX_QUESTION)}
        \cup {Join(<<<<" ", "1", " ">>, <<"x">>, IntToStr(MAX_QUESTION + 1)>>),
              Join(<<<<"2">>, <<>>, <<"2">>, <<"0">>>>)}

\* ----------------------------------------------------------------- actions
\* What each interaction may leave, from the session and files s: the callback's
\* outcomes, each followed by the run of the script.

\* a passcode gate that takes any passcode that is not empty
SubmitPasscodeOutcomes_accepts_any(s, passcode_input) ==
    IF passcode_input # ""
    THEN ThenRun({[s EXCEPT !.authenticated = TRUE]})
    ELSE {Notify(s, "incorrect_passcode")}

\* The passcode gate (lines 243-252): a match sets the flag and reruns.
SubmitPasscodeOutcomes(s, passcode_input) ==
    IF passcode_input = APP_PASSCODE
    THEN ThenRun({[s EXCEPT !.authenticated = TRUE]})
    ELSE {Notify(s, "incorrect_passcode")}

UserNameChangeOutcomes(s, new_user_name) == script_run(s, new_user_name)

\* the "<<" and ">>" buttons
StepOutcomes(s, delta) ==
    ThenRun({go_to_playlist_index(s, s.playlist_index + delta)})

JumpToIndexOutcomes(s, index) == ThenRun({go_to_playlist_index(s, index)})

JumpToQuestionNumberOutcomes(s, q_num_str) ==
    ThenRun(go_to_question_by_number(s, q_num_str))

\* the shuffle button without the rebuild
ToggleShuffleOutcomes_no_rebuild(s) == ThenRun({[s EXCEPT !.is_shuffled = ~@]})

\* the shuffle button (line 329): setattr returns None, so build_playlist runs
ToggleShuffleOutcomes(s) ==
    ThenRun(build_playlist([s EXCEPT !.is_shuffled = ~@]))

ToggleAnswerOutcomes(s) == ThenRun({[s EXCEPT !.showing_answer = ~@]})

SkipCurrentOutcomes(s) == ThenRun(skip_current_question(s))

ReplaceSkipSetFromTextOutcomes(s, input_string) ==
    ThenRun(parse_skipped_input(s, input_string))

SubmitPasscode(passcode_input) ==
    /\ ~authenticated
    /\ \E t \in SubmitPasscodeOutcomes(State, passcode_input) : Install(t)

\* Past the gate the page shows its widgets; the name block runs when the
\* text of the name field differs from the session's user_name.
UserNameChange(new_user_name) ==
    /\ authenticated
    /\ new_user_name # user_name
    /\ \E t \in UserNameChangeOutcomes(State, new_user_name) : Install(t)

Step(delta) ==
    /\ authenticated
    /\ \E t \in StepOutcomes(State, delta) : Install(t)

JumpToIndex(index) ==
    /\ authenticated
    /\ \E t \in JumpToIndexOutcomes(State, index) : Install(t)

JumpToQuestionNumber(q_num_str) ==
    /\ authenticated
    /\ \E t \in JumpToQuestionNumberOutcomes(State, q_num_str) : Install(t)

ToggleShuffle ==
    /\ authenticated
    /\ \E t \in ToggleShuffleOutcomes(State) : Install(t)

ToggleAnswer ==
    /\ authenticated
    /\ \E t \in ToggleAnswerOutcomes(State) : Install(t)

SkipCurrent ==
    /\ authenticated
    /\ \E t \in SkipCurrentOutcomes(State) : Install(t)

ReplaceSkipSetFromText(input_string) ==
    /\ authenticated
    /\ \E t \in ReplaceSkipSetFromTextOutcomes(State, input_string) : Install(t)

Indexes == (-1)..Len(all_questions)

Next ==
    \/ \E p \in Passcodes : SubmitPasscode(p)
    \/ \E n \in UserNames : UserNameChange(n)
    \/ \E d \in {-1, 1} : Step(d)
    \/ \E i \in Indexes : JumpToIndex(i)
    \/ \E q \in QuestionInputs : JumpToQuestionNumber(q)
    \/ ToggleShuffle
    \/ ToggleAnswer
    \/ SkipCurrent
    \/ \E text \in SkipTexts : ReplaceSkipSetFromText(text)

Spec == Init /\ [][Next]_vars

\* ------------------------------------------------- the store on its own
\* save_skipped_questions and load_skipped_questions as functions of the user
\* name and the files, for user names that name two files: those of "a"
\* ("a", "a!", " a ") and of "b" ("b", "b?"), and names that name none.
StoreUsers ==
    {<<>>, <<"!", " ">>, <<"a">>, <<"a", "!">>, <<" ", "a", " ">>,
     <<"b">>, <<"b", "?">>}

StorePaths == {get_user_data_file(u) : u \in StoreUsers} \ {NoPath}

StoreInit ==
    /\ authenticated = FALSE
    /\ user_name = <<>>
    /\ current_playlist = <<>>
    /\ playlist_index = 0
    /\ showing_answer = FALSE
    /\ is_shuffled = FALSE
    /\ skipped_questions = {}
    /\ files \in [StorePaths -> InitialContents]

StoreSave(username, skipped_set) ==
    \E t \in save_skipped_questions(State, username, skipped_set) : Install(t)

StoreNext ==
    \E u \in StoreUsers : \E S \in SUBSET (MIN_QUESTION..MAX_QUESTION) :
        StoreSave(u, S)

SpecStore == StoreInit /\ [][StoreNext]_vars

\* ------------------------------------------------------------ two sessions
\* Two browser sessions of the one server: each has its own session state
\* (every variable but files is a function of the session), the files of
\* DATA_DIR are shared.  Streamlit runs a callback and the script run that
\* follows it one session at a time here: actions interleave whole.  The
\* sessions take the operations that read or write the skip set and the file,
\* and the steps that choose the question to skip.
Sessions == {1, 2}

SessionState(i) ==
    [authenticated |-> authenticated[i], user_name |-> user_name[i],
     current_playlist |-> current_playlist[i],
     playlist_index |-> playlist_index[i],
     showing_answer |-> showing_answer[i], is_shuffled |-> is_shuffled[i],
     skipped_questions |-> skipped_questions[i], files |-> files,
     notice |-> {}]

InstallIn(i, s) ==
    /\ authenticated' = [authenticated EXCEPT ![i] = s.authenticated]
    /\ user_name' = [user_name EXCEPT ![i] = s.user_name]
    /\ current_playlist' = [current_playlist EXCEPT ![i] = s.current_playlist]
    /\ playlist_index' = [playlist_index EXCEPT ![i] = s.playlist_index]
    /\ showing_answer' = [showing_answer EXCEPT ![i] = s.showing_answer]
    /\ is_shuffled' = [is_shuffled EXCEPT ![i] = s.is_shuffled]
    /\ skipped_questions' = [skipped_questions EXCEPT ![i] = s.skipped_questions]
    /\ files' = s.files

\* initialize_session_state in each session; the shared file is not there yet
\* or holds what an earlier session saved
TwoInit ==
    /\ authenticated = [i \in Sessions |-> FALSE]
    /\ user_name = [i \in Sessions |-> <<>>]
    /\ current_playlist = [i \in Sessions |-> <<>>]
    /\ playlist_index = [i \in Sessions |-> 0]
    /\ showing_answer = [i \in Sessions |-> FALSE]
    /\ is_shuffled = [i \in Sessions |-> FALSE]
    /\ skipped_questions = [i \in Sessions |-> {}]
    /\ files \in [Paths -> {Absent, Json(<<MIN_QUESTION + 1, MIN_QUESTION>>)}]

\* the name both sessions enter
SharedUserName == <<"a", "!">>

TwoSubmitPasscode(i) ==
    /\ ~authenticated[i]
    /\ \E t \in SubmitPasscodeOutcomes(SessionState(i), APP_PASSCODE) :
            InstallIn(i, t)

TwoUserNameChange(i) ==
    /\ authenticated[i]
    /\ SharedUserName # user_name[i]
    /\ \E t \in UserNameChangeOutcomes(SessionState(i), SharedUserName) :
            InstallIn(i, t)

TwoStep(i, delta) ==
    /\ authenticated[i]
    /\ \E t \in StepOutcomes(SessionState(i), delta) : InstallIn(i, t)

TwoSkipCurrent(i) ==
    /\ authenticated[i]
    /\ \E t \in SkipCurrentOutcomes(SessionState(i)) : InstallIn(i, t)

TwoJumpToQuestionNumber(i, q_num_str) ==
    /\ authenticated[i]
    /\ \E t \in JumpToQuestionNumberOutcomes(SessionState(i), q_num_str) :
            InstallIn(i, t)

TwoReplaceSkipSetFromText(i, input_string) ==
    /\ authenticated[i]
    /\ \E t \in ReplaceSkipSetFromTextOutcomes(SessionState(i), input_string) :
            InstallIn(i, t)

TwoNext ==
    \E i \in Sessions :
        \/ TwoSubmitPasscode(i)
        \/ TwoUserNameChange(i)
        \/ \E d \in {-1, 1} : TwoStep(i, d)
        \/ TwoSkipCurrent(i)
        \/ \E n \in MIN_QUESTION..MAX_QUESTION :
                TwoJumpToQuestionNumber(i, IntToStr(n))
        \/ \E S \in SUBSET (MIN_QUESTION..MAX_QUESTION) :
                TwoReplaceSkipSetFromText(i, SetText(S))

SpecTwo == TwoInit /\ [][TwoNext]_vars

\* ================================================================== claims
Pool == MIN_QUESTION..MAX_QUESTION

NoDuplicates(seq) == \A i, j \in 1..Len(seq) : seq[i] = seq[j] => i = j

Ascending(seq) == \A i \in 1..(Len(seq) - 1) : seq[i] < seq[i + 1]

\* an outcome without the messages of its run
Core(t) == [t EXCEPT !.notice = {}]

\* C1: once the playlist has been built (the run that follows the accepted
\* passcode builds it), in every state the playlist has no duplicates and
\* its elements are exactly the pool minus the skip set, shuffled or not.
C1_PlaylistIsPoolMinusSkipSet ==
    authenticated =>
        /\ NoDuplicates(current_playlist)
        /\ Range(current_playlist) = Pool \ skipped_questions

\* C1 witness: a shuffled playlist, out of order, with a question skipped.
C1_Witness ==
    /\ authenticated
    /\ is_shuffled
    /\ skipped_questions = {MIN_QUESTION + 1}
    /\ Len(current_playlist) >= 2
    /\ ~Ascending(current_playlist)

\* C2: in every state the cursor is an index of the playlist when the
\* playlist is not empty, and 0 when it is empty.
C2_CursorInBounds ==
    IF current_playlist # <<>>
    THEN 0 <= playlist_index /\ playlist_index < Len(current_playlist)
    ELSE playlist_index = 0

\* C2 witness: the cursor on the last question of a playlist of two or more
\* (the place from which ">>" would leave the playlist).
C2_Witness ==
    /\ Len(current_playlist) >= 2
    /\ playlist_index = Len(current_playlist) - 1

\* what step and jumpToIndex must leave for a target index
MovedTo(t, target) ==
    IF 0 <= target /\ target < Len(current_playlist)
    THEN Core(t) = [State EXCEPT !.playlist_index = target,
                                 !.showing_answer = FALSE]
    ELSE Core(t) = State

\* C3: step(delta) and jumpToIndex(i) with the target inside the playlist set
\* the cursor to the target and clear showing_answer, and change nothing else
\* (playlist, skip set, shuffle flag, user, files); with the target outside
\* (also on an empty playlist) they change nothing at all: no wrap-around.
C3_StepAndJumpToIndex ==
    authenticated =>
        /\ \A d \in {-1, 1} : \A t \in StepOutcomes(State, d) :
                MovedTo(t, playlist_index + d)
        /\ \A i \in Indexes : \A t \in JumpToIndexOutcomes(State, i) :
                MovedTo(t, i)

\* C3 witness: the answer is showing on a question in the middle of the
\* playlist, a question skipped: both steps move, and must clear the answer.
C3_Witness ==
    /\ authenticated
    /\ showing_answer
    /\ playlist_index > 0
    /\ playlist_index < Len(current_playlist) - 1

\* C4: skipCurrent on a playlist that is not empty adds the question at the
\* cursor to the skip set and nothing else; the new playlist holds the old
\* one's questions but that one, ascending when shuffle is off, and from
\* cursor 0 the cursor stays 0 (pool 1..5 unskipped: skip set {1}, playlist
\* [2,3,4,5], cursor 0).  On an empty playlist it changes nothing, files
\* included.
C4_SkipCurrent ==
    authenticated =>
        \A t \in SkipCurrentOutcomes(State) :
            IF current_playlist # <<>>
            THEN LET current_q == current_playlist[playlist_index + 1]
                 IN  /\ t.skipped_questions = skipped_questions \cup {current_q}
                     /\ current_q \notin skipped_questions
                     /\ Range(t.current_playlist)
                            = Range(current_playlist) \ {current_q}
                     /\ NoDuplicates(t.current_playlist)
                     /\ t.is_shuffled = is_shuffled
                     /\ ~is_shuffled => Ascending(t.current_playlist)
                     /\ playlist_index = 0 => t.playlist_index = 0
            ELSE Core(t) = State

\* C4 witness: the scenario's end, the first question of the whole pool
\* skipped with no user named.
C4_Witness ==
    /\ authenticated
    /\ ~is_shuffled
    /\ skipped_questions = {MIN_QUESTION}
    /\ current_playlist = Tail(all_questions)
    /\ playlist_index = 0
    /\ user_name = <<>>

\* C5: after skipCurrent on a playlist that is not empty the cursor is clamped
\* from the index it had before the skip: when that index is at or past the
\* new length and the new playlist is not empty the cursor is new length - 1
\* (the last of k >= 2 skipped: k - 2), and 0 when the new playlist is empty.
C5_SkipClampsOldCursor ==
    authenticated =>
        \A t \in SkipCurrentOutcomes(State) :
            current_playlist # <<>> =>
                /\ (playlist_index >= Len(t.current_playlist)
                        /\ t.current_playlist # <<>>)
                    => t.playlist_index = Len(t.current_playlist) - 1
                /\ t.current_playlist = <<>> => t.playlist_index = 0

\* the number a text of the question field stands for, a number below the
\* pool when it is none
QuestionOf(q_num_str) ==
    IF ParseInt(q_num_str).ok THEN ParseInt(q_num_str).val ELSE MIN_QUESTION - 1

\* What the operations that are said to keep q skipped may leave from s: step,
\* jumpToIndex, toggleAnswer, toggleShuffle, skipCurrent, jumpToQuestionNumber
\* of another number, and replaceSkipSetFromText of a text that lists q.
KeepingOutcomes(s, q) ==
    UNION ({StepOutcomes(s, d) : d \in {-1, 1}}
            \cup {JumpToIndexOutcomes(s, i) : i \in Indexes}
            \cup {ToggleAnswerOutcomes(s), ToggleShuffleOutcomes(s),
                  SkipCurrentOutcomes(s)}
            \cup {JumpToQuestionNumberOutcomes(s, inp) :
                    inp \in {x \in QuestionInputs : QuestionOf(x) # q}}
            \cup {ReplaceSkipSetFromTextOutcomes(s, text) :
                    text \in {x \in SkipTexts : q \in new_skipped(x)}})

\* what a change of the user name may leave from s
NameChangeOutcomes(s) ==
    UNION {UserNameChangeOutcomes(s, n) : n \in UserNames \ {s.user_name}}

\* C6, as amended: skipCurrent leaves its question q in the skip set and out
\* of the playlist, and from every state in which q is skipped, step,
\* jumpToIndex, toggleAnswer, toggleShuffle, skipCurrent, jumpToQuestionNumber
\* of another number and replaceSkipSetFromText of a text listing q leave q
\* skipped and out of the playlist: q stays out until jumpToQuestionNumber(q),
\* a replaceSkipSetFromText without q, or a change of the user name.
C6_SkippedStaysOut ==
    authenticated =>
        /\ \A t \in SkipCurrentOutcomes(State) :
                current_playlist # <<>> =>
                    LET q == current_playlist[playlist_index + 1]
                    IN  /\ q \in t.skipped_questions
                        /\ q \notin Range(t.current_playlist)
        /\ \A q \in skipped_questions \cap Pool :
                \A u \in KeepingOutcomes(State, q) :
                    /\ q \in u.skipped_questions
                    /\ q \notin Range(u.current_playlist)

\* C6 witness: the last question skipped, and then shuffle turned on, the
\* cursor moved and the answer shown, the question still out.
C6_Witness ==
    /\ authenticated
    /\ skipped_questions = {MAX_QUESTION}
    /\ is_shuffled
    /\ playlist_index > 0
    /\ showing_answer
    /\ user_name = <<>>

\* C6 as claimed: once skipCurrent has skipped q, q is out of the playlist
\* after any of step, jumpToIndex, toggleAnswer, toggleShuffle, skipCurrent
\* and a change of the user name.
C6_Original ==
    authenticated =>
        \A t \in SkipCurrentOutcomes(State) :
            current_playlist # <<>> =>
                LET q == current_playlist[playlist_index + 1]
                IN  \A u \in KeepingOutcomes(t, q) \cup NameChangeOutcomes(t) :
                        q \notin Range(u.current_playlist)

\* what load(user) returns for the session's user equals the skip set in
\* memory, for a user name that names a file
InSync(s) ==
    get_user_data_file(s.user_name) # NoPath =>
        load_skipped_questions(s.files, s.user_name).set = s.skipped_questions

\* what any interaction past the passcode gate may leave, but a change of the
\* user name
SameUserOutcomes(s) ==
    UNION ({StepOutcomes(s, d) : d \in {-1, 1}}
            \cup {JumpToIndexOutcomes(s, i) : i \in Indexes}
            \cup {ToggleAnswerOutcomes(s), ToggleShuffleOutcomes(s),
                  SkipCurrentOutcomes(s)}
            \cup {JumpToQuestionNumberOutcomes(s, inp) : inp \in QuestionInputs}
            \cup {ReplaceSkipSetFromTextOutcomes(s, text) : text \in SkipTexts})

\* C7: for a user name that names a file, what load(user) would return equals
\* the skip set in memory (no file: the empty set) after every change of the
\* user name and after every save that did not fail, and no action whose
\* write did not fail ends that equality: so it holds in every state reached
\* without a failed write.
C7_FileEqualsSkipSet ==
    authenticated =>
        /\ \A t \in NameChangeOutcomes(State) : InSync(t)
        /\ \A t \in SameUserOutcomes(State) :
                "save_error" \notin t.notice =>
                    /\ "saved" \in t.notice => InSync(t)
                    /\ InSync(State) => InSync(t)

\* C7 witness: a named user whose file holds the skip set of first and last
\* question, last first: a save wrote it.
C7_Witness ==
    /\ authenticated
    /\ get_user_data_file(user_name) # NoPath
    /\ skipped_questions = {MIN_QUESTION, MAX_QUESTION}
    /\ files[get_user_data_file(user_name)] = Json(<<MAX_QUESTION, MIN_QUESTION>>)

\* The user names and skip sets save and load are tried on: the names of the
\* sidebar, two more that name the same file, and sets with a number outside
\* the pool.
StoreNames == UserNames \cup {<<"a">>, <<" ", "a", " ">>, <<"?", "a", "/">>}

StoreSets == SUBSET (MIN_QUESTION..(MAX_QUESTION + 1))

\* the saves that did not fail
Succeeded(outcomes) == {t \in outcomes : "save_error" \notin t.notice}

\* C8, as amended: for every user name that sanitizes to a name of a file and
\* every set S, a save(user, S) that does not fail followed by load(user)
\* gives S, whatever the order the numbers were written in.
C8_RoundTrip ==
    \A u \in StoreNames : \A S \in StoreSets :
        get_user_data_file(u) # NoPath =>
            \A t \in Succeeded(save_skipped_questions(State, u, S)) :
                load_skipped_questions(t.files, u).set = S

\* C8 witness: a file that a save wrote with the whole pool, out of order.
C8_Witness ==
    \E p \in Paths :
        /\ files[p].kind = "json"
        /\ Range(files[p].list) = Pool
        /\ Len(files[p].list) = Cardinality(Pool)
        /\ ~Ascending(files[p].list)

\* C8 as claimed: for every user name, also one that sanitizes to nothing.
C8_Original ==
    \A u \in StoreNames : \A S \in StoreSets :
        \A t \in Succeeded(save_skipped_questions(State, u, S)) :
            load_skipped_questions(t.files, u).set = S

\* the texts of the question field that stand for n
InputsOf(n) == {inp \in QuestionInputs : ParseInt(inp).ok /\ ParseInt(inp).val = n}

\* C9: for every n of the pool, jumpToQuestionNumber(n) ends with n not
\* skipped, the cursor on n and the question side showing, never with "not in
\* current playlist"; a skipped n is taken out of the skip set (n alone), the
\* playlist is rebuilt and the skip set written to the user's file (when the
\* user has a file and the write does not fail); for an n that was not skipped
\* the skip set, the playlist and the files are as before.
C9_JumpToQuestionNumber ==
    authenticated =>
        \A n \in Pool : \A inp \in InputsOf(n) :
            \A t \in JumpToQuestionNumberOutcomes(State, inp) :
                /\ n \notin t.skipped_questions
                /\ t.current_playlist # <<>>
                /\ update_flashcard_image(t) = n
                /\ ~t.showing_answer
                /\ "not_in_playlist" \notin t.notice
                /\ t.user_name = user_name /\ t.is_shuffled = is_shuffled
                /\ IF n \in skipped_questions
                   THEN /\ t.skipped_questions = skipped_questions \ {n}
                        /\ Range(t.current_playlist) = Pool \ t.skipped_questions
                        /\ NoDuplicates(t.current_playlist)
                        /\ "save_error" \notin t.notice => InSync(t)
                        /\ get_user_data_file(user_name) = NoPath => t.files = files
                        /\ "unskipped" \in t.notice
                   ELSE /\ t.skipped_questions = skipped_questions
                        /\ t.current_playlist = current_playlist
                        /\ t.files = files

\* C9 witness: a named user, the first question skipped and in the file, the
\* cursor on the last question of an ordered playlist (as after un-skipping
\* the last question by its number).
C9_Witness ==
    /\ authenticated
    /\ get_user_data_file(user_name) # NoPath
    /\ ~is_shuffled
    /\ skipped_questions = {MIN_QUESTION}
    /\ files[get_user_data_file(user_name)] = Json(<<MIN_QUESTION>>)
    /\ playlist_index = Len(current_playlist) - 1
    /\ ~showing_answer

\* the texts of the question field that are no integer or an integer outside
\* the pool
InvalidInputs == {inp \in QuestionInputs : QuestionOf(inp) \notin Pool}

\* C10: jumpToQuestionNumber with a text that is no integer, or an integer
\* outside MIN_QUESTION..MAX_QUESTION, changes nothing: skip set, playlist,
\* cursor, answer flag, shuffle flag, user and files are as before.
C10_InvalidNumberChangesNothing ==
    authenticated =>
        \A inp \in InvalidInputs :
            \A t \in JumpToQuestionNumberOutcomes(State, inp) :
                /\ Core(t) = State
                /\ t.notice \cap {"invalid_number", "out_of_range"} # {}

\* C10 witness: a state with something to lose: a question skipped, the
\* cursor off the first question, the answer showing, shuffle on.
C10_Witness ==
    /\ authenticated
    /\ skipped_questions # {}
    /\ playlist_index > 0
    /\ showing_answer
    /\ is_shuffled
    /\ get_user_data_file(user_name) # NoPath

\* What each text of the skip-list editor lists, told by hand and not by the
\* parser: the subsets of the pool as the page writes them; " 1 ,x,N" with N
\* the number after the pool, which lists 1; and "2,,2,0", which lists 2.
SkipTextMeaning ==
    {[text |-> SetText(S), set |-> S] : S \in SUBSET Pool}
        \cup {[text |-> Join(<<<<" ", "1", " ">>, <<"x">>, IntToStr(MAX_QUESTION + 1)>>),
               set |-> {1}],
              [text |-> Join(<<<<"2">>, <<>>, <<"2">>, <<"0">>>>), set |-> {2}]}

\* C11: replaceSkipSetFromText(text) leaves as skip set exactly the numbers of
\* the pool that the text lists between its commas: pieces that are no number
\* or a number outside the pool are dropped without an error message, and the
\* old skip set is replaced, not merged: none of its numbers that the text
\* does not list is skipped afterwards.  The playlist is rebuilt from it.
C11_ReplaceSkipSetFromText ==
    /\ {m.text : m \in SkipTextMeaning} = SkipTexts
    /\ authenticated =>
        \A m \in SkipTextMeaning :
            \A t \in ReplaceSkipSetFromTextOutcomes(State, m.text) :
                /\ t.skipped_questions = m.set
                /\ \A q \in skipped_questions \ m.set : q \notin t.skipped_questions
                /\ Range(t.current_playlist) = Pool \ m.set
                /\ t.notice \subseteq {"saved", "save_error", "no_questions_available"}
                /\ t.user_name = user_name /\ t.is_shuffled = is_shuffled

\* C11 witness: the whole pool skipped by a named user and written to the
\* file in one piece, in ascending order: the state that the text
\* of the whole pool leaves.
C11_Witness ==
    /\ authenticated
    /\ get_user_data_file(user_name) # NoPath
    /\ skipped_questions = Pool
    /\ current_playlist = <<>>
    /\ files[get_user_data_file(user_name)] = Json(all_questions)

\* C12: while authenticated is false, submitPasscode with the configured
\* passcode sets it, and with any other text leaves everything as it was (the
\* gate is shown again, so it may be retried); and every step taken while it
\* is false is an accepted passcode: nothing else changes the skip set, the
\* playlist, the cursor, the answer flag, the shuffle flag, the user name or a
\* file.
C12_OnlyThePasscodeUnlocks ==
    /\ [](~authenticated =>
            \A p \in Passcodes : \A t \in SubmitPasscodeOutcomes(State, p) :
                IF p = APP_PASSCODE THEN t.authenticated
                ELSE Core(t) = State /\ "incorrect_passcode" \in t.notice)
    /\ [][~authenticated => (authenticated' /\ SubmitPasscode(APP_PASSCODE))]_vars

\* C12 witness: the session just past the gate, with files it has not touched
\* (one of them no JSON).
C12_Witness ==
    /\ authenticated
    /\ current_playlist = all_questions
    /\ playlist_index = 0
    /\ ~showing_answer /\ ~is_shuffled
    /\ skipped_questions = {} /\ user_name = <<>>
    /\ \E p \in Paths : files[p] = Corrupt

RebuiltFromStart(t) == t.playlist_index = 0 /\ ~t.showing_answer

\* C13: every rebuild of the playlist leaves the cursor 0 and the question
\* side showing: so do toggleShuffle, replaceSkipSetFromText and a change of
\* the user name, wherever the cursor was and whichever side showed; and
\* toggleShuffle flips the shuffle flag and leaves skip set, user and files.
C13_RebuildResets ==
    authenticated =>
        /\ \A t \in build_playlist(State) : RebuiltFromStart(t)
        /\ \A t \in ToggleShuffleOutcomes(State) :
                /\ RebuiltFromStart(t)
                /\ t.is_shuffled = ~is_shuffled
                /\ t.skipped_questions = skipped_questions
                /\ t.files = files
                /\ t.user_name = user_name
        /\ \A text \in SkipTexts :
                \A t \in ReplaceSkipSetFromTextOutcomes(State, text) :
                    RebuiltFromStart(t)
        /\ \A t \in NameChangeOutcomes(State) : RebuiltFromStart(t)

\* C13 witness: the answer showing on the last question of an ordered
\* playlist of a named user: the three operations all have to reset both.
C13_Witness ==
    /\ authenticated
    /\ ~is_shuffled
    /\ showing_answer
    /\ Len(current_playlist) >= 2
    /\ playlist_index = Len(current_playlist) - 1
    /\ get_user_data_file(user_name) # NoPath

\* C14: in every state the skip set holds numbers of the pool only, also
\* after a change of the user name that loads a file holding any JSON array of
\* integers.
C14_SkipSetInPool == skipped_questions \subseteq Pool

\* C15, as amended: for any two user names that sanitize to different names
\* of files, save(u1, S) does not change the set that load(u2) returns (nor
\* the file of u2), whether the write is done or fails.
C15_DistinctSanitizedNames ==
    \A u1, u2 \in StoreUsers :
        (get_user_data_file(u1) # get_user_data_file(u2)
                /\ get_user_data_file(u1) # NoPath
                /\ get_user_data_file(u2) # NoPath) =>
            \A S \in StoreSets :
                \A t \in save_skipped_questions(State, u1, S) :
                    /\ load_skipped_questions(t.files, u2).set
                            = load_skipped_questions(files, u2).set
                    /\ t.files[get_user_data_file(u2)]
                            = files[get_user_data_file(u2)]

\* C15 witness: the two files hold different skip sets that saves wrote: the
\* first question in the one, the others in the other.
C15_Witness ==
    /\ files[get_user_data_file(<<"a">>)] = Json(<<MIN_QUESTION>>)
    /\ files[get_user_data_file(<<"b">>)].kind = "json"
    /\ Range(files[get_user_data_file(<<"b">>)].list) = Pool \ {MIN_QUESTION}

\* C15 as claimed: for any two different user names that both sanitize to a
\* name of a file, save(u1, S) does not change the set that load(u2) returns.
C15_DistinctFiles ==
    \A u1, u2 \in StoreUsers :
        (u1 # u2 /\ get_user_data_file(u1) # NoPath
                 /\ get_user_data_file(u2) # NoPath) =>
            \A S \in StoreSets :
                \A t \in save_skipped_questions(State, u1, S) :
                    load_skipped_questions(t.files, u2).set
                        = load_skipped_questions(files, u2).set

\* the session without its files and messages
Memory(t) == [t EXCEPT !.files = <<>>, !.notice = {}]

\* Among the outcomes of one operation, each whose save failed leaves the
\* session (skip set, playlist, cursor and the rest) as an outcome whose save
\* did not fail, still past the gate, the file as it was or no JSON.
NotRolledBack(outcomes) ==
    \A t \in outcomes :
        "save_error" \in t.notice =>
            /\ t.authenticated
            /\ \E w \in outcomes : "saved" \in w.notice /\ Memory(w) = Memory(t)
            /\ t.files[get_user_data_file(user_name)]
                    \in {files[get_user_data_file(user_name)], Corrupt}

\* C16: when the save of skipCurrent, jumpToQuestionNumber or
\* replaceSkipSetFromText fails, the change in memory stays: skip set, playlist
\* and cursor are those of the same operation with the save done (the skipped
\* question is in the skip set, the un-skipped one is not, the text's set is
\* the skip set), and the session stays past the gate, where every operation
\* is accepted.  (The witness is a state in which the skip set and the file
\* differ.)
C16_FailedSaveKeepsChange ==
    authenticated =>
        /\ NotRolledBack(SkipCurrentOutcomes(State))
        /\ \A t \in SkipCurrentOutcomes(State) :
                ("save_error" \in t.notice) =>
                    current_playlist[playlist_index + 1] \in t.skipped_questions
        /\ \A inp \in QuestionInputs :
                /\ NotRolledBack(JumpToQuestionNumberOutcomes(State, inp))
                /\ \A t \in JumpToQuestionNumberOutcomes(State, inp) :
                        ("save_error" \in t.notice) =>
                            QuestionOf(inp) \notin t.skipped_questions
        /\ \A m \in SkipTextMeaning :
                /\ NotRolledBack(ReplaceSkipSetFromTextOutcomes(State, m.text))
                /\ \A t \in ReplaceSkipSetFromTextOutcomes(State, m.text) :
                        ("save_error" \in t.notice) => t.skipped_questions = m.set

\* C16 witness: a named user whose skip set is not what the file holds, the
\* file still the JSON array it was: a write failed at open().
C16_Witness ==
    /\ authenticated
    /\ get_user_data_file(user_name) # NoPath
    /\ files[get_user_data_file(user_name)].kind = "json"
    /\ skipped_questions # {}
    /\ skipped_questions \subseteq Pool
    /\ ~InSync(State)

\* C17: load(user) is the empty set when the user's file is absent, when it
\* holds no JSON, and when the name sanitizes to nothing (load is a function
\* of the files: it raises nothing and writes nothing); and save(user, S) for
\* a name that sanitizes to nothing leaves every file, and tells nothing.
C17_LoadAndSaveWithoutFile ==
    \A u \in StoreNames :
        /\ get_user_data_file(u) = NoPath =>
                /\ load_skipped_questions(files, u).set = {}
                /\ \A S \in StoreSets : save_skipped_questions(State, u, S) = {State}
        /\ get_user_data_file(u) # NoPath =>
                (files[get_user_data_file(u)].kind \in {"absent", "corrupt"}
                    => load_skipped_questions(files, u).set = {})

\* C17 witness: a user whose name sanitizes to nothing, with questions
\* skipped that no save wrote, and a file that holds no JSON.
C17_Witness ==
    /\ authenticated
    /\ user_name # <<>>
    /\ get_user_data_file(user_name) = NoPath
    /\ skipped_questions # {}
    /\ \E p \in Paths : files[p] = Corrupt

\* C19: in every state with shuffle off the playlist is strictly ascending:
\* past the gate it is the pool without the skip set, in order; and turning
\* shuffle off, from whatever shuffled playlist, leaves it ascending.
C19_AscendingWhenNotShuffled ==
    /\ ~is_shuffled => Ascending(current_playlist)
    /\ (authenticated /\ ~is_shuffled) =>
            current_playlist
                = SelectSeq(all_questions, LAMBDA q : q \notin skipped_questions)
    /\ authenticated =>
            \A t \in ToggleShuffleOutcomes(State) :
                ~t.is_shuffled => Ascending(t.current_playlist)

\* C19 witness: shuffle on, the playlist out of order, the cursor moved and
\* the answer showing, a question skipped: shuffle is about to be turned off.
C19_Witness ==
    /\ authenticated
    /\ is_shuffled
    /\ ~Ascending(current_playlist)
    /\ skipped_questions = {MIN_QUESTION}
    /\ playlist_index > 0
    /\ showing_answer

\* C20: once authenticated is true it stays true: no step resets it.
C20_AuthenticatedStays == [][authenticated => authenticated']_vars

\* C20 witness: past the gate and well into a session: a user named, then the
\* name cleared again, a question skipped since, shuffle on.
C20_Witness ==
    /\ authenticated
    /\ user_name = <<>>
    /\ is_shuffled
    /\ skipped_questions = {MAX_QUESTION}
    /\ \E p \in Paths : files[p].kind = "json" /\ Range(files[p].list) = Pool

\* what the operations of session i that save may leave
TwoSavingOutcomes(i) ==
    UNION ({SkipCurrentOutcomes(SessionState(i))}
            \cup {JumpToQuestionNumberOutcomes(SessionState(i), IntToStr(n)) :
                    n \in Pool}
            \cup {ReplaceSkipSetFromTextOutcomes(SessionState(i), SetText(S)) :
                    S \in SUBSET Pool})

\* C18: with two sessions under one user name, every save that is done leaves
\* in the shared file the skip set that the saving session holds at that
\* save, whatever the file held and whatever the other session holds; and
\* the file changes in no other way: after every step that changes it, it
\* holds the skip set of one of the sessions, or no JSON when the write failed.
\* Nothing merges the two skip sets, so a skip that one session saved is gone
\* from the file when the other saves after it.
C18_LastWriteWins ==
    /\ [](\A i \in Sessions :
            (authenticated[i] /\ user_name[i] = SharedUserName) =>
                \A t \in TwoSavingOutcomes(i) :
                    "saved" \in t.notice =>
                        load_skipped_questions(t.files, SharedUserName).set
                            = t.skipped_questions)
    /\ [][files' # files =>
            \/ \E i \in Sessions :
                    /\ user_name'[i] = SharedUserName
                    /\ load_skipped_questions(files', SharedUserName).set
                            = skipped_questions'[i]
                    /\ files'[get_user_data_file(SharedUserName)].kind = "json"
            \/ files'[get_user_data_file(SharedUserName)] = Corrupt]_vars

\* C18 witness: both sessions under the shared name; the first skipped the
\* first question, the second the last; the file holds the second's skip set
\* alone: the first session's skip is lost from it.
C18_Witness ==
    /\ \A i \in Sessions : authenticated[i] /\ user_name[i] = SharedUserName
    /\ skipped_questions[1] = {MIN_QUESTION}
    /\ skipped_questions[2] = {MAX_QUESTION}
    /\ files[get_user_data_file(SharedUserName)] = Json(<<MAX_QUESTION>>)

====
